---- MODULE Spec2Model ----
(***************************************************************************)
(* dc-cli, content-item commands remove-archived-delivery-key and          *)
(* remove-archived-active-flag: handler -> getContentItems ->              *)
(* filterContentItems -> processItems, run against a remote hub.           *)
(*                                                                         *)
(* An option of argv is drawn from its domain by the first action that     *)
(* reads it and is kept unchanged from then on.                            *)
(***************************************************************************)
EXTENDS Integers, Sequences, FiniteSets, TLC

VARIABLES
  cmd,           \* "dk": remove-archived-delivery-key, "af": remove-archived-active-flag
  remote,        \* the content items of the hub, as the remote service holds them
  argv,          \* the options of the invocation
  pc,            \* where the run is
  located,       \* what getContentItems returned
  contentItems,  \* the array processItems works on
  idx,           \* the loop index i of processItems (from 1)
  deliveryKey,   \* the deliveryKey captured at the top of a loop iteration
  log,           \* the lines of the ArchiveLog
  successCount,
  calls,         \* the remote mutation calls issued: <<operation, item id, succeeded>>
  failures,      \* how many of them were made to fail
  locErr,        \* the remote fetch that failed in getContentItems
  prompt,        \* the question asked
  answered,      \* the answer given
  logWritten,    \* how often log.writeToFile ran
  summary        \* the final count was printed

vars == <<cmd, remote, argv, pc, located, contentItems, idx, deliveryKey, log,
          successCount, calls, failures, locErr, prompt, answered, logWritten,
          summary>>

(* ---------------------------- bounds ----------------------------------- *)

\* number of content items of the hub
MaxItems == 3

\* number of remote mutation calls that may be made to fail in one run
MaxFailures == 2

(* ---------------------------- the hub ---------------------------------- *)

Items == 1 .. MaxItems
Repos == <<"r1", "r2">>
None == "none"
NoKey == "null"
NoId == 0
NoList == <<>>
Flag == {"true", "false"}
Unread == "unread"

RepoOf(i) == IF i % 2 = 1 THEN "r1" ELSE "r2"
FolderOf(i) == IF i <= 2 THEN "f1" ELSE None

Label(i) ==
  IF i % 3 = 1 THEN <<"h", "a">> ELSE IF i % 3 = 2 THEN <<"h", "b">> ELSE <<"f">>

SchemaOf(i) ==
  IF i % 2 = 1 THEN <<"s", "a">> ELSE <<"s", "b">>

Status == {"ACTIVE", "ARCHIVED"}

\* what the delivery-key command reads of an item, and what the active-flag
\* command reads of it
RemoteItem(c) ==
  IF c = "dk"
  THEN [status : Status, deliveryKey : {NoKey, "key"}, active : {FALSE},
        lastPublishedVersion : {0}]
  ELSE [status : Status, deliveryKey : {NoKey}, active : BOOLEAN,
        lastPublishedVersion : {0, 1}]

\* the in-memory copy of a content item that a remote call returns
Copy(i, r) ==
  [id |-> i, status |-> r.status, deliveryKey |-> r.deliveryKey,
   active |-> r.active, lastPublishedVersion |-> r.lastPublishedVersion]

(* ---------------------------- sequences -------------------------------- *)

RECURSIVE Flatten(_)
Flatten(ss) == IF ss = <<>> THEN <<>> ELSE Head(ss) \o Flatten(Tail(ss))

RECURSIVE Ascending(_)
Ascending(S) ==
  IF S = {} THEN <<>>
  ELSE LET m == CHOOSE x \in S : \A y \in S : x <= y
       IN <<m>> \o Ascending(S \ {m})

Range(s) == {s[k] : k \in DOMAIN s}

Orders(s) ==
  {p \in [DOMAIN s -> Range(s)] : \A a, b \in DOMAIN s : a # b => p[a] # p[b]}

(* ---------------------------- equalsOrRegex ---------------------------- *)

\* one regular-expression atom against one character
AtomMatches(a, ch) == a = "." \/ a = ch

\* the atoms of re match value from position k on
RECURSIVE MatchHere(_, _, _)
MatchHere(re, value, k) ==
  IF re = <<>> THEN TRUE
  ELSE IF re = <<"$">> THEN k = Len(value) + 1
  ELSE k <= Len(value) /\ AtomMatches(Head(re), value[k])
       /\ MatchHere(Tail(re), value, k + 1)

RegexTest(re, value) ==
  IF re # <<>> /\ Head(re) = "^"
  THEN MatchHere(Tail(re), value, 1)
  ELSE \E k \in 1 .. Len(value) + 1 : MatchHere(re, value, k)

equalsOrRegex(value, compare) ==
  IF Len(compare) > 1 /\ compare[1] = "/" /\ compare[Len(compare)] = "/"
  THEN RegexTest(SubSeq(compare, 2, Len(compare) - 1), value)
  ELSE value = compare

MatchesAny(value, patterns) ==
  \E k \in DOMAIN patterns : equalsOrRegex(value, patterns[k])

(* ---------------------------- filterContentItems ----------------------- *)

hasDeliveryKey(item) == item.deliveryKey \notin {NoKey, ""}

hasActiveFlag(item) == item.active /\ item.lastPublishedVersion # 0

\* a filter that applies the content-type patterns on top of the name patterns
filterByPatternsBoth(name, contentType, withField) ==
  LET byName ==
        IF name # NoList
        THEN SelectSeq(withField, LAMBDA item : MatchesAny(Label(item.id), name))
        ELSE withField
  IN IF contentType # NoList
     THEN SelectSeq(byName, LAMBDA item : MatchesAny(SchemaOf(item.id), contentType))
     ELSE byName

filterByPatterns(name, contentType, withField) ==
  IF name # NoList
  THEN SelectSeq(withField, LAMBDA item : MatchesAny(Label(item.id), name))
  ELSE IF contentType # NoList
  THEN SelectSeq(withField, LAMBDA item : MatchesAny(SchemaOf(item.id), contentType))
  ELSE withField

filterContentItemsDeliveryKey(name, contentType, items) ==
  filterByPatterns(name, contentType, SelectSeq(items, hasDeliveryKey))

filterContentItemsActiveFlag(name, contentType, items) ==
  filterByPatterns(name, contentType, SelectSeq(items, hasActiveFlag))

filterContentItems(c, name, contentType, items) ==
  IF c = "dk"
  THEN filterContentItemsDeliveryKey(name, contentType, items)
  ELSE filterContentItemsActiveFlag(name, contentType, items)

(* ---------------------------- initial state ---------------------------- *)

Init ==
  /\ cmd \in {"dk", "af"}
  /\ remote \in [Items -> RemoteItem(cmd)]
  /\ argv = [id |-> NoId, repoId |-> NoList, folderId |-> NoList,
             name |-> NoList, contentType |-> NoList, force |-> Unread,
             silent |-> Unread, logFile |-> Unread, ignoreError |-> Unread]
  /\ pc = "handler"
  /\ located = <<>>
  /\ contentItems = <<>>
  /\ idx = 1
  /\ deliveryKey = NoKey
  /\ log = <<>>
  /\ successCount = 0
  /\ calls = <<>>
  /\ failures = 0
  /\ locErr = None
  /\ prompt = None
  /\ answered = None
  /\ logWritten = 0
  /\ summary = FALSE

(* ---------------------------- handler ---------------------------------- *)

IdArgs == {NoId} \cup Items
RepoArgs == {NoList, <<"r1">>}
FolderArgs == {NoList, <<"f1">>}
NameArgs == {NoList, <<<<"/", "^", "h", "/">>>>}
ContentTypeArgs == {NoList, <<<<"s", "a">>>>}

\* handler up to its call of getContentItems
Handler ==
  /\ pc = "handler"
  /\ \E id \in IdArgs, repoId \in RepoArgs, folderId \in FolderArgs,
        name \in NameArgs, contentType \in ContentTypeArgs :
       /\ argv' = [argv EXCEPT !.id = id, !.repoId = repoId,
                               !.folderId = folderId, !.name = name,
                               !.contentType = contentType]
       /\ pc' = IF id # NoId /\ name # NoList THEN "done" ELSE "getContentItems"
  /\ UNCHANGED <<cmd, remote, located, contentItems, idx, deliveryKey, log,
                 successCount, calls, failures, locErr, prompt, answered,
                 logWritten, summary>>

(* ---------------------------- getContentItems -------------------------- *)

\* paginator(source.related.contentItems.list, {status: ARCHIVED})
listArchived(sourceItems) ==
  LET ids == {i \in sourceItems : remote[i].status = "ARCHIVED"}
      asc == Ascending(ids)
  IN [k \in DOMAIN asc |-> Copy(asc[k], remote[asc[k]])]

\* the sources whose items are listed
sourcesOf(repoId, folderId) ==
  IF folderId # NoList THEN folderId
  ELSE IF repoId # NoList THEN repoId ELSE Repos

listSource(folderId, source) ==
  IF folderId # NoList
  THEN listArchived({i \in Items : FolderOf(i) = source})
  ELSE listArchived({i \in Items : RepoOf(i) = source})

\* the remote fetches of a listing run, each of which may fail
fetchesOf(folderId) ==
  {"hub", "repo", "list"} \cup (IF folderId # NoList THEN {"folder"} ELSE {})

getContentItemsById ==
  /\ pc = "getContentItems"
  /\ argv.id # NoId
  /\ \/ /\ located' = <<Copy(argv.id, remote[argv.id])>>
        /\ locErr' = None
     \/ /\ located' = <<>>
        /\ locErr' = "item"
  /\ contentItems' = located'
  /\ pc' = "processItems"
  /\ UNCHANGED <<cmd, remote, argv, idx, deliveryKey, log, successCount, calls,
                 failures, prompt, answered, logWritten, summary>>

\* getContentItems that returns what the other sources gave when one listing
\* fails
getContentItemsListedKeepsCollected ==
  /\ pc = "getContentItems"
  /\ argv.id = NoId
  /\ \/ \E order \in Orders(sourcesOf(argv.repoId, argv.folderId)) :
          /\ located' =
               filterContentItems(cmd, argv.name, argv.contentType,
                 Flatten([k \in DOMAIN order |->
                            listSource(argv.folderId, order[k])]))
          /\ locErr' = None
     \/ \E err \in fetchesOf(argv.folderId) :
          /\ located' =
               IF err = "list"
               THEN filterContentItems(cmd, argv.name, argv.contentType,
                      listSource(argv.folderId,
                                 sourcesOf(argv.repoId, argv.folderId)[1]))
               ELSE <<>>
          /\ locErr' = err
  /\ contentItems' = located'
  /\ pc' = "processItems"
  /\ UNCHANGED <<cmd, remote, argv, idx, deliveryKey, log, successCount, calls,
                 failures, prompt, answered, logWritten, summary>>

getContentItemsListed ==
  /\ pc = "getContentItems"
  /\ argv.id = NoId
  /\ \/ \E order \in Orders(sourcesOf(argv.repoId, argv.folderId)) :
          /\ located' =
               filterContentItems(cmd, argv.name, argv.contentType,
                 Flatten([k \in DOMAIN order |->
                            listSource(argv.folderId, order[k])]))
          /\ locErr' = None
     \/ \E err \in fetchesOf(argv.folderId) :
          /\ located' = <<>>
          /\ locErr' = err
  /\ contentItems' = located'
  /\ pc' = "processItems"
  /\ UNCHANGED <<cmd, remote, argv, idx, deliveryKey, log, successCount, calls,
                 failures, prompt, answered, logWritten, summary>>

(* ---------------------------- processItems ----------------------------- *)

allContent ==
  /\ argv.id = NoId /\ argv.name = NoList /\ argv.contentType = NoList
  /\ argv.folderId = NoList /\ argv.repoId = NoList

\* an entry that asks the question whether force is set or not
processItemsEntryAlwaysAsks ==
  /\ pc = "processItems"
  /\ IF Len(contentItems) = 0
     THEN /\ pc' = "done"
          /\ UNCHANGED <<argv, prompt>>
     ELSE \E force \in Flag :
            /\ argv' = [argv EXCEPT !.force = force]
            /\ pc' = "asyncQuestion"
            /\ prompt' = IF allContent THEN "all" ELSE "filtered"
  /\ UNCHANGED <<cmd, remote, located, contentItems, idx, deliveryKey, log,
                 successCount, calls, failures, locErr, answered, logWritten,
                 summary>>

\* the empty check, the listing of the selection and the force check
processItemsEntry ==
  /\ pc = "processItems"
  /\ IF Len(contentItems) = 0
     THEN /\ pc' = "done"
          /\ UNCHANGED <<argv, prompt>>
     ELSE \E force \in Flag :
            /\ argv' = [argv EXCEPT !.force = force]
            /\ pc' = IF force = "true" THEN "loop" ELSE "asyncQuestion"
            /\ prompt' = IF force = "true" THEN prompt
                         ELSE IF allContent THEN "all" ELSE "filtered"
  /\ UNCHANGED <<cmd, remote, located, contentItems, idx, deliveryKey, log,
                 successCount, calls, failures, locErr, answered, logWritten,
                 summary>>

\* a gate that goes on to the loop whatever the answer
asyncQuestionIgnoresAnswer ==
  /\ pc = "asyncQuestion"
  /\ \E yes \in {"y", "n"} :
       /\ answered' = yes
       /\ pc' = "loop"
  /\ UNCHANGED <<cmd, remote, argv, located, contentItems, idx, deliveryKey,
                 log, successCount, calls, failures, locErr, prompt,
                 logWritten, summary>>

\* the answer to the yes/no question
asyncQuestion ==
  /\ pc = "asyncQuestion"
  /\ \E yes \in {"y", "n"} :
       /\ answered' = yes
       /\ pc' = IF yes = "y" THEN "loop" ELSE "done"
  /\ UNCHANGED <<cmd, remote, argv, located, contentItems, idx, deliveryKey,
                 log, successCount, calls, failures, locErr, prompt,
                 logWritten, summary>>

Entry(kind, id, data) == [kind |-> kind, id |-> id, data |-> data]

\* where the for loop goes after the item at idx
nextItem == IF idx < Len(contentItems) THEN "loop" ELSE "writeLog"

item == contentItems[idx]

readIgnoreError ==
  IF argv.ignoreError = Unread THEN Flag ELSE {argv.ignoreError}

\* a remote mutation call may be made to fail while the budget lasts
mayFail == failures < MaxFailures

\* a catch block that rethrows when ignoreError is not set: the run ends
\* there, with no log file and no summary
catchDeliveryKeyRethrows(key) ==
  \E ignoreError \in readIgnoreError :
    /\ argv' = [argv EXCEPT !.ignoreError = ignoreError]
    /\ log' = log \o <<Entry("COMMENT", item.id, key),
                       Entry("COMMENT", item.id, "cause"),
                       Entry(IF ignoreError = "true" THEN "WARN" ELSE "ERROR",
                             item.id, item.status)>>
    /\ idx' = IF ignoreError = "true" /\ idx < Len(contentItems)
              THEN idx + 1 ELSE idx
    /\ pc' = IF ignoreError = "true" THEN nextItem ELSE "done"

\* the catch block of the delivery-key loop; key is the captured deliveryKey
catchDeliveryKey(key) ==
  \E ignoreError \in readIgnoreError :
    /\ argv' = [argv EXCEPT !.ignoreError = ignoreError]
    /\ log' = log \o <<Entry("COMMENT", item.id, key),
                       Entry("COMMENT", item.id, "cause"),
                       Entry(IF ignoreError = "true" THEN "WARN" ELSE "ERROR",
                             item.id, item.status)>>
    /\ idx' = IF ignoreError = "true" /\ idx < Len(contentItems)
              THEN idx + 1 ELSE idx
    /\ pc' = IF ignoreError = "true" THEN nextItem ELSE "writeLog"

\* contentItems[i] = await contentItems[i].related.unarchive()
unarchive ==
  /\ pc = "loop"
  /\ cmd = "dk"
  /\ deliveryKey' = item.deliveryKey
  /\ \/ /\ remote[item.id].status = "ARCHIVED"
        /\ calls' = Append(calls, <<"unarchive", item.id, TRUE>>)
        /\ remote' = [remote EXCEPT ![item.id].status = "ACTIVE"]
        /\ contentItems' =
             [contentItems EXCEPT ![idx] = Copy(item.id, remote'[item.id])]
        /\ pc' = "update"
        /\ UNCHANGED <<argv, idx, log, failures>>
     \/ /\ remote[item.id].status # "ARCHIVED"
        /\ calls' = Append(calls, <<"unarchive", item.id, FALSE>>)
        /\ catchDeliveryKey(item.deliveryKey)
        /\ UNCHANGED <<remote, contentItems, failures>>
     \/ /\ remote[item.id].status = "ARCHIVED"
        /\ mayFail
        /\ calls' = Append(calls, <<"unarchive", item.id, FALSE>>)
        /\ failures' = failures + 1
        /\ catchDeliveryKey(item.deliveryKey)
        /\ UNCHANGED <<remote, contentItems>>
  /\ UNCHANGED <<cmd, located, successCount, locErr, prompt, answered,
                 logWritten, summary>>

\* contentItems[i].body._meta.deliveryKey = null;
\* contentItems[i] = await contentItems[i].related.update(contentItems[i])
update ==
  /\ pc = "update"
  /\ \/ /\ calls' = Append(calls, <<"update", item.id, TRUE>>)
        /\ remote' = [remote EXCEPT ![item.id].deliveryKey = NoKey]
        /\ contentItems' =
             [contentItems EXCEPT ![idx] = Copy(item.id, remote'[item.id])]
        /\ pc' = "archive"
        /\ UNCHANGED <<argv, idx, log, failures>>
     \/ /\ mayFail
        /\ calls' = Append(calls, <<"update", item.id, FALSE>>)
        /\ failures' = failures + 1
        /\ contentItems' = [contentItems EXCEPT ![idx].deliveryKey = NoKey]
        /\ catchDeliveryKey(deliveryKey)
        /\ UNCHANGED remote
  /\ UNCHANGED <<cmd, located, deliveryKey, successCount, locErr, prompt,
                 answered, logWritten, summary>>

\* await contentItems[i].related.archive(); log.addAction; successCount++
archive ==
  /\ pc = "archive"
  /\ \/ /\ calls' = Append(calls, <<"archive", item.id, TRUE>>)
        /\ remote' = [remote EXCEPT ![item.id].status = "ARCHIVED"]
        /\ log' = Append(log, Entry("ACTION", item.id, deliveryKey))
        /\ successCount' = successCount + 1
        /\ idx' = IF idx < Len(contentItems) THEN idx + 1 ELSE idx
        /\ pc' = nextItem
        /\ UNCHANGED <<argv, failures>>
     \/ /\ mayFail
        /\ calls' = Append(calls, <<"archive", item.id, FALSE>>)
        /\ failures' = failures + 1
        /\ catchDeliveryKey(deliveryKey)
        /\ UNCHANGED <<remote, successCount>>
  /\ UNCHANGED <<cmd, located, contentItems, deliveryKey, locErr, prompt,
                 answered, logWritten, summary>>

\* the loop body of the active-flag command: pubQueue.publish in its own
\* try/catch, then log.addAction and successCount++
publish ==
  /\ pc = "loop"
  /\ cmd = "af"
  /\ \/ /\ calls' = Append(calls, <<"publish", item.id, TRUE>>)
        /\ log' = log \o <<Entry("COMMENT", item.id, "Started publish"),
                           Entry("ACTION", item.id, None)>>
        /\ UNCHANGED failures
     \/ /\ mayFail
        /\ calls' = Append(calls, <<"publish", item.id, FALSE>>)
        /\ failures' = failures + 1
        /\ log' = log \o <<Entry("COMMENT", item.id, "Failed to initiate publish"),
                           Entry("ACTION", item.id, None)>>
  /\ successCount' = successCount + 1
  /\ idx' = IF idx < Len(contentItems) THEN idx + 1 ELSE idx
  /\ pc' = nextItem
  /\ UNCHANGED <<cmd, remote, argv, located, contentItems, deliveryKey,
                 locErr, prompt, answered, logWritten, summary>>

\* if (!silent && logFile) await log.writeToFile(...)
writeLog ==
  /\ pc = "writeLog"
  /\ \E silent \in Flag, logFile \in Flag :
       /\ argv' = [argv EXCEPT !.silent = silent, !.logFile = logFile]
       /\ logWritten' = IF silent # "true" /\ logFile = "true"
                        THEN logWritten + 1 ELSE logWritten
  /\ pc' = "summary"
  /\ UNCHANGED <<cmd, remote, located, contentItems, idx, deliveryKey, log,
                 successCount, calls, failures, locErr, prompt, answered,
                 summary>>

\* console.log of the success count
printSummary ==
  /\ pc = "summary"
  /\ summary' = TRUE
  /\ pc' = "done"
  /\ UNCHANGED <<cmd, remote, argv, located, contentItems, idx, deliveryKey,
                 log, successCount, calls, failures, locErr, prompt, answered,
                 logWritten>>

Next ==
  \/ Handler
  \/ getContentItemsById
  \/ getContentItemsListed
  \/ processItemsEntry
  \/ asyncQuestion
  \/ unarchive
  \/ update
  \/ archive
  \/ publish
  \/ writeLog
  \/ printSummary

Spec == Init /\ [][Next]_vars

\* the runs over hubs whose items all carry the target field
InitLoop ==
  /\ Init
  /\ \A i \in Items :
       IF cmd = "dk"
       THEN remote[i].deliveryKey # NoKey
       ELSE remote[i].active /\ remote[i].lastPublishedVersion # 0

\* the run goes on as long as an awaited call or the prompt returns
FairSpec == InitLoop /\ [][Next]_vars /\ WF_vars(Next)

(* ---------------------------- filterContentItems alone ---------------- *)

\* length of the item lists handed to filterContentItems
MaxList == 2

\* the archived items a listing can return
ListedItems(c) ==
  {Copy(i, r) : i \in Items, r \in {x \in RemoteItem(c) : x.status = "ARCHIVED"}}

ItemLists(c) ==
  UNION {[1 .. n -> ListedItems(c)] : n \in 0 .. MaxList}

\* --name: absent, a literal, a regular expression, several patterns
NamePatterns ==
  {NoList,
   <<<<"h", "a">>>>,
   <<<<"/", "^", "h", "/">>>>,
   <<<<"f">>, <<"/", "b", "$", "/">>>>}

\* --contentType: absent, a literal, a regular expression
ContentTypePatterns ==
  {NoList, <<<<"s", "a">>>>, <<<<"/", "s", ".", "/">>>>, <<<<"/", "b", "/">>>>}

InitFilter ==
  /\ cmd \in {"dk", "af"}
  /\ contentItems \in ItemLists(cmd)
  /\ \E name \in NamePatterns, contentType \in ContentTypePatterns :
       argv = [id |-> NoId, repoId |-> NoList, folderId |-> NoList,
               name |-> name, contentType |-> contentType, force |-> Unread,
               silent |-> Unread, logFile |-> Unread, ignoreError |-> Unread]
  /\ remote \in [Items -> {[status |-> "ARCHIVED", deliveryKey |-> NoKey,
                            active |-> FALSE, lastPublishedVersion |-> 0]}]
  /\ pc = "filterContentItems"
  /\ located = <<>>
  /\ idx = 1
  /\ deliveryKey = NoKey
  /\ log = <<>>
  /\ successCount = 0
  /\ calls = <<>>
  /\ failures = 0
  /\ locErr = None
  /\ prompt = None
  /\ answered = None
  /\ logWritten = 0
  /\ summary = FALSE

\* one call of filterContentItems; its result is kept in located
callFilterContentItems ==
  /\ pc = "filterContentItems"
  /\ located' = filterContentItems(cmd, argv.name, argv.contentType, contentItems)
  /\ pc' = "filtered"
  /\ UNCHANGED <<cmd, remote, argv, contentItems, idx, deliveryKey, log,
                 successCount, calls, failures, locErr, prompt, answered,
                 logWritten, summary>>

NextFilter == callFilterContentItems

SpecFilter == InitFilter /\ [][NextFilter]_vars

(* ---------------------------- properties ------------------------------- *)

Called(i) == \E k \in DOMAIN calls : calls[k][2] = i
Failed(i) == \E k \in DOMAIN calls : calls[k][2] = i /\ ~calls[k][3]
Succeeded(i) ==
  \E k \in DOMAIN calls :
    calls[k][2] = i /\ calls[k][3] /\ calls[k][1] \in {"archive", "publish"}
HasLine(i, kind) == \E k \in DOMAIN log : log[k].id = i /\ log[k].kind = kind
Confirmed == argv.force = "true" \/ answered = "y"

\* C1: a remote call (unarchive, update, archive, publish) is issued on an
\* item only if the item's status was ARCHIVED when it was located.
C1_MutatesOnlyArchived ==
  \A k \in DOMAIN calls :
    \E j \in DOMAIN located :
      located[j].id = calls[k][2] /\ located[j].status = "ARCHIVED"

\* C2: when the run has ended, every item with an ACTION line has remote
\* status ARCHIVED.
C2_ActionItemsArchivedAtEnd ==
  pc = "done" =>
    \A i \in Items : HasLine(i, "ACTION") => remote[i].status = "ARCHIVED"

\* C3: every item of the selection handed to processItems carries the target
\* field: a delivery key (delivery-key command), or the active flag together
\* with a last-published version (active-flag command).
C3_SelectionCarriesTargetField ==
  \A k \in DOMAIN located :
    IF cmd = "dk"
    THEN located[k].deliveryKey # NoKey
    ELSE located[k].active /\ located[k].lastPublishedVersion # 0

\* C4: an item has an ACTION line only if none of its remote calls failed; an
\* item with a failed call has a COMMENT line and a WARN or ERROR line and no
\* ACTION line; successCount is the number of items whose whole transition
\* succeeded.
C4_ActionOnlyIfEveryStepSucceeded ==
  /\ \A i \in Items :
       /\ HasLine(i, "ACTION") => ~Failed(i)
       /\ Failed(i) =>
            /\ HasLine(i, "COMMENT")
            /\ HasLine(i, "WARN") \/ HasLine(i, "ERROR")
            /\ HasLine(i, "WARN") <=> argv.ignoreError = "true"
  /\ successCount = Cardinality({i \in Items : HasLine(i, "ACTION")})
  /\ successCount = Cardinality({i \in Items : Succeeded(i) /\ ~Failed(i)})

\* C5: after an item's mutation failed, the later items of the selection are
\* processed exactly when ignoreError is set: without it no call is issued and
\* no line is logged for a later item, with it every later item is attempted
\* by the end of the run.
C5_LaterItemsExactlyWhenIgnoreError ==
  \A k \in DOMAIN located, j \in DOMAIN located :
    (k < j /\ Failed(located[k].id)) =>
      IF argv.ignoreError = "true"
      THEN pc = "done" => Called(located[j].id)
      ELSE /\ ~Called(located[j].id)
           /\ \A n \in DOMAIN log : log[n].id # located[j].id

\* C6: in the active-flag command an ACTION line for an item implies that the
\* item was unarchived and updated before it was published and that its
\* remote active flag is cleared.
C6_ActionImpliesActiveFlagCleared ==
  cmd = "af" =>
    \A i \in Items :
      HasLine(i, "ACTION") =>
        /\ ~remote[i].active
        /\ \E a, b, c \in DOMAIN calls :
             /\ a < b /\ b < c
             /\ calls[a] = <<"unarchive", i, TRUE>>
             /\ calls[b] = <<"update", i, TRUE>>
             /\ calls[c][1] = "publish" /\ calls[c][2] = i

\* C7: a remote mutation call is issued, a log line recorded or the log file
\* written only if the selection is non-empty and force is set or the answer
\* was yes; an empty selection or another answer ends the run with no call
\* and no log file.
C7_NoMutationWithoutConfirmation ==
  /\ (calls # <<>> \/ log # <<>> \/ logWritten > 0) =>
       Len(located) > 0 /\ Confirmed
  /\ (pc = "done" /\ (Len(located) = 0 \/ answered = "n")) =>
       calls = <<>> /\ logWritten = 0 /\ ~summary

C7_Witness ==
  /\ pc = "done" /\ argv.force = "false" /\ answered = "y"
  /\ calls # <<>> /\ logWritten = 1

\* C8: when a remote fetch of getContentItems fails, the result is empty and
\* the run ends with no prompt, no mutation and no log file.
C8_FetchFailureGivesEmptyRun ==
  locErr # None =>
    /\ located = <<>> /\ contentItems = <<>>
    /\ pc \in {"processItems", "done"}
    /\ prompt = None /\ calls = <<>> /\ log = <<>>
    /\ logWritten = 0 /\ ~summary

\* a listing failed although another source had items of the selection
C8_Witness ==
  /\ pc = "done" /\ locErr = "list"
  /\ argv.repoId = NoList /\ argv.folderId = NoList
  /\ \E i \in Items :
       /\ remote[i].status = "ARCHIVED"
       /\ filterContentItems(cmd, argv.name, argv.contentType,
                             <<Copy(i, remote[i])>>) # <<>>

\* C9: once the mutation loop has started the run reaches its end with the
\* summary printed; the log is written at most once, and exactly once if and
\* only if silent is not set and a log path is given.
C9_LoopAlwaysReachesSummary ==
  /\ [](logWritten <= 1)
  /\ []((pc = "done" /\ Confirmed) =>
          /\ summary
          /\ logWritten = 1 <=> (argv.silent # "true" /\ argv.logFile = "true"))
  /\ (Confirmed ~> (pc = "done" /\ summary))

\* the batch was aborted by the first failure, the log written all the same
C9_Witness ==
  /\ pc = "done" /\ summary /\ logWritten = 1
  /\ argv.ignoreError = "false"
  /\ \E k \in DOMAIN log : log[k].kind = "ERROR"
  /\ Len(located) > 1

\* C10: with no item ID and a folder filter, the located set is the archived
\* items of the named folders that pass the filter, whatever repoId is and
\* whatever the fetch of the repositories does.
C10_FolderRunIgnoresRepositories ==
  (/\ pc = "processItems"
   /\ argv.id = NoId /\ argv.folderId # NoList
   /\ locErr \notin {"hub", "folder", "list"}) =>
    Range(located) =
      Range(filterContentItems(cmd, argv.name, argv.contentType,
              Flatten([k \in DOMAIN argv.folderId |->
                         listSource(argv.folderId, argv.folderId[k])])))

\* the items of a list that carry the command's target field
WithTargetField(items) ==
  SelectSeq(items, LAMBDA it :
    IF cmd = "dk" THEN it.deliveryKey # NoKey
    ELSE it.active /\ it.lastPublishedVersion # 0)

\* C11: filterContentItems with name and contentType returns what it returns
\* with that name alone; the content-type patterns count only without a name:
\* then the result is the field-present items whose schema matches; with
\* neither it is the whole field-present list.
C11_NameTakesPrecedence ==
  pc = "filtered" =>
    /\ argv.name # NoList =>
         /\ located = filterContentItems(cmd, argv.name, NoList, contentItems)
         /\ located = SelectSeq(WithTargetField(contentItems),
                        LAMBDA it : MatchesAny(Label(it.id), argv.name))
    /\ (argv.name = NoList /\ argv.contentType # NoList) =>
         located = SelectSeq(WithTargetField(contentItems),
                     LAMBDA it : MatchesAny(SchemaOf(it.id), argv.contentType))
    /\ (argv.name = NoList /\ argv.contentType = NoList) =>
         located = WithTargetField(contentItems)

\* both filters given, and the content-type patterns would have dropped an
\* item that the name patterns keep
C11_Witness ==
  /\ pc = "filtered"
  /\ argv.name # NoList /\ argv.contentType # NoList
  /\ \E k \in DOMAIN located :
       ~MatchesAny(SchemaOf(located[k].id), argv.contentType)

\* C12: the yes/no question is asked exactly when the selection is non-empty
\* and force is not set: never for an empty selection, never with force.
C12_PromptExactlyWhenNotForced ==
  /\ prompt # None => (Len(located) > 0 /\ argv.force = "false")
  /\ Len(located) = 0 => (prompt = None /\ answered = None)
  /\ argv.force = "true" => (prompt = None /\ answered = None)
  /\ (pc \notin {"handler", "getContentItems", "processItems"}
      /\ Len(located) > 0 /\ argv.force = "false") => prompt # None

\* the question is being asked for a selection of several items
C12_Witness ==
  /\ pc = "asyncQuestion" /\ prompt # None
  /\ argv.force = "false" /\ Len(located) > 1

\* C13: in the delivery-key command the status written in an item's WARN or
\* ERROR line is the item's remote status at the failure: ARCHIVED if the
\* unarchive call failed, ACTIVE if the update or the archive call failed.
C13_LoggedStatusIsStatusAtFailure ==
  cmd = "dk" =>
    \A n \in DOMAIN log :
      log[n].kind \in {"WARN", "ERROR"} =>
        /\ log[n].data = remote[log[n].id].status
        /\ \E k \in DOMAIN calls :
             /\ calls[k][2] = log[n].id /\ ~calls[k][3]
             /\ log[n].data =
                  IF calls[k][1] = "unarchive" THEN "ARCHIVED" ELSE "ACTIVE"

====
